---- MODULE Spec2Model ----
(***************************************************************************)
(* Model of the jq-rs filter engine (mini-projects/00-jq-rs): the stage     *)
(* evaluator filter_input, its selectors and builtins, and the pipeline    *)
(* evaluator pipe, stepped one loop iteration at a time.                   *)
(*                                                                         *)
(* Text (needles, keys, JSON strings) is a sequence of one-character       *)
(* strings, so that starts_with / contains / find / split / parse are      *)
(* computed the way the Rust code computes them.                           *)
(***************************************************************************)
EXTENDS Integers, Sequences, FiniteSets, TLC

(***************************************************************************)
(* Bounds of the model                                                     *)
(***************************************************************************)
\* index and slice literals range over -1 .. MaxIndex
MaxIndex == 5
\* arrays [1, 2, ..., n] of the model have n in 0 .. MaxArrayLen
MaxArrayLen == 4

(***************************************************************************)
(* Text primitives (std::str)                                              *)
(***************************************************************************)
\* str::starts_with
starts_with(s, p) ==
    /\ Len(p) <= Len(s)
    /\ SubSeq(s, 1, Len(p)) = p

\* does pattern p occur in s at 0-based byte offset i
MatchAt(s, p, i) ==
    /\ i + Len(p) <= Len(s)
    /\ SubSeq(s, i + 1, i + Len(p)) = p

\* str::contains
contains(s, p) == \E i \in 0..Len(s) : MatchAt(s, p, i)

\* str::find, 0-based offset of the first match; -1 stands for None
find(s, p) ==
    IF contains(s, p)
    THEN CHOOSE i \in 0..Len(s) :
            /\ MatchAt(s, p, i)
            /\ \A j \in 0..(i - 1) : ~MatchAt(s, p, j)
    ELSE -1

\* &s[a..b] is defined (no panic) iff a <= b <= len
slice_ok(s, a, b) == 0 <= a /\ a <= b /\ b <= Len(s)

\* &s[a..b]
slice(s, a, b) == SubSeq(s, a + 1, b)

\* str::split(p) for a non-empty pattern: non-overlapping matches, left to
\* right, empty pieces kept
RECURSIVE split(_, _)
split(s, p) ==
    IF contains(s, p)
    THEN LET i == find(s, p)
         IN  <<slice(s, 0, i)>> \o split(slice(s, i + Len(p), Len(s)), p)
    ELSE <<s>>

\* a sequence back to front
RECURSIVE reversed(_)
reversed(a) == IF a = <<>> THEN <<>> ELSE reversed(Tail(a)) \o <<Head(a)>>

Digits == <<"0", "1", "2", "3", "4", "5", "6", "7", "8", "9">>

is_digit(c) == \E d \in 1..10 : Digits[d] = c

digit_val(c) == (CHOOSE d \in 1..10 : Digits[d] = c) - 1

\* decimal digits of usize::MAX on a 64-bit target
UsizeMaxDigits ==
    <<"1", "8", "4", "4", "6", "7", "4", "4", "0", "7",
      "3", "7", "0", "9", "5", "5", "1", "6", "1", "5">>

RECURSIVE strip_zeros(_)
strip_zeros(ds) ==
    IF ds # <<>> /\ Head(ds) = "0" THEN strip_zeros(Tail(ds)) ELSE ds

\* lexicographic ds > es for digit strings of equal length
RECURSIVE digits_gt(_, _)
digits_gt(ds, es) ==
    IF ds = <<>> THEN FALSE
    ELSE IF digit_val(Head(ds)) # digit_val(Head(es))
         THEN digit_val(Head(ds)) > digit_val(Head(es))
         ELSE digits_gt(Tail(ds), Tail(es))

RECURSIVE digits_value(_, _)
digits_value(ds, acc) ==
    IF ds = <<>> THEN acc
    ELSE digits_value(Tail(ds), acc * 10 + digit_val(Head(ds)))

\* str::parse::<usize>: an optional leading '+', then one or more decimal
\* digits, the value fitting in usize; anything else is a ParseIntError.
\* A value of more than nine significant digits is represented by its leading
\* nine digits: it stays above the length of every array of the model, and
\* within the integers TLC can represent.
parse_usize(s) ==
    LET body == IF s # <<>> /\ Head(s) = "+" THEN Tail(s) ELSE s
        sig  == strip_zeros(body)
    IN  IF body = <<>> \/ \E i \in 1..Len(body) : ~is_digit(body[i])
        THEN [ok |-> FALSE, val |-> 0]
        ELSE IF \/ Len(sig) > Len(UsizeMaxDigits)
                \/ (Len(sig) = Len(UsizeMaxDigits) /\ digits_gt(sig, UsizeMaxDigits))
        THEN [ok |-> FALSE, val |-> 0]
        ELSE IF Len(sig) > 9
        THEN [ok |-> TRUE, val |-> digits_value(SubSeq(sig, 1, 9), 0)]
        ELSE [ok |-> TRUE, val |-> digits_value(sig, 0)]

(***************************************************************************)
(* serde_json::Value                                                       *)
(***************************************************************************)
Null == [t |-> "null"]
Bool(b) == [t |-> "bool", v |-> b]
\* Number holding an integer
Number(n) == [t |-> "num", v |-> n]
\* Number holding a float, given in tenths (Float(15) is 1.5)
Float(n) == [t |-> "float", v |-> n]
\* Number holding i64::MIN = -9223372036854775808, which has no counterpart
\* among the integers TLC can represent
I64Min == [t |-> "i64min"]
String(s) == [t |-> "str", v |-> s]
Array(a) == [t |-> "arr", v |-> a]
\* Object: a function from keys (text) to Values
Object(m) == [t |-> "obj", v |-> m]

is_array(x) == x.t = "arr"
is_object(x) == x.t = "obj"
is_number(x) == x.t \in {"num", "float", "i64min"}
is_string(x) == x.t = "str"

\* Value::get(&str): the field of an object, None (FALSE) for anything else
has_key(x, key) == is_object(x) /\ key \in DOMAIN x.v

(***************************************************************************)
(* Result<FilterResult, MyErrors>, plus the panic outcome                  *)
(***************************************************************************)
SingleValue(x) == [kind |-> "SingleValue", value |-> x]
Iterator(items) == [kind |-> "Iterator", items |-> items]
Err(e) == [kind |-> "Err", err |-> e, arg |-> <<>>]
ErrWith(e, text) == [kind |-> "Err", err |-> e, arg |-> text]
Panic == [kind |-> "Panic"]
NoResult == [kind |-> "None"]

\* Result<Value, MyErrors> of the helpers uses the same records, Ok(v) being
\* SingleValue(v)
Ok(x) == SingleValue(x)
is_ok(r) == r.kind \in {"SingleValue", "Iterator"}
is_err(r) == r.kind = "Err"

(***************************************************************************)
(* Selectors (filters.rs)                                                  *)
(***************************************************************************)
\* faulty variant: the leading '.' is kept in the key
object_identifier_filter_keeps_dot(input, needle) ==
    IF has_key(input, needle)
    THEN Ok(input.v[needle])
    ELSE ErrWith("KeyNotFound", needle)

\* object_identifier_filter: needle[1..] is the key
object_identifier_filter(input, needle) ==
    LET key == slice(needle, 1, Len(needle))
    IN  IF has_key(input, key)
        THEN Ok(input.v[key])
        ELSE ErrWith("KeyNotFound", key)

\* faulty variant: the bounds check is off by one
array_index_off_by_one(input, index_str) ==
    LET index == parse_usize(index_str)
    IN  IF ~index.ok THEN Err("ParseError")
        ELSE IF index.val + 1 < Len(input.v)
        THEN Ok(input.v[index.val + 1])
        ELSE Err("IndexOutOfBounds")

\* faulty variant: text that does not parse counts as index 0
array_index_defaults_to_zero(input, index_str) ==
    LET index == parse_usize(index_str)
    IN  IF index.val < Len(input.v)
        THEN Ok(input.v[index.val + 1])
        ELSE Err("IndexOutOfBounds")

\* array_index, called on arrays only
array_index(input, index_str) ==
    LET index == parse_usize(index_str)
    IN  IF ~index.ok THEN Err("ParseError")
        ELSE IF index.val < Len(input.v)
        THEN Ok(input.v[index.val + 1])
        ELSE Err("IndexOutOfBounds")

\* faulty variant: start <= end, an empty range is accepted
array_slice_allows_empty(input, index_str) ==
    LET indices == split(index_str, <<":">>)
        start   == parse_usize(indices[1])
        end     == parse_usize(indices[2])
    IN  IF ~start.ok THEN Err("ParseError")
        ELSE IF ~end.ok THEN Err("ParseError")
        ELSE IF start.val <= end.val /\ end.val <= Len(input.v)
        THEN Ok(Array(SubSeq(input.v, start.val + 1, end.val)))
        ELSE Err("IndexOutOfBounds")

\* array_slice, called on arrays only, index_str containing ':'
array_slice(input, index_str) ==
    LET indices == split(index_str, <<":">>)
        start   == parse_usize(indices[1])
        end     == parse_usize(indices[2])
    IN  IF ~start.ok THEN Err("ParseError")
        ELSE IF ~end.ok THEN Err("ParseError")
        ELSE IF start.val < end.val /\ end.val <= Len(input.v)
        THEN Ok(Array(SubSeq(input.v, start.val + 1, end.val)))
        ELSE Err("IndexOutOfBounds")

\* faulty variant: the iterator starts at the second element
array_iterator_skips_first(input) ==
    IF is_array(input)
    THEN Iterator(IF input.v = <<>> THEN <<>> ELSE Tail(input.v))
    ELSE Err("ListNotFound")

\* faulty variant: the iterator runs from the last element to the first
array_iterator_reversed(input) ==
    IF is_array(input) THEN Iterator(reversed(input.v)) ELSE Err("ListNotFound")

\* array_iterator: an iterator over a clone of the elements
array_iterator(input) ==
    IF is_array(input) THEN Iterator(input.v) ELSE Err("ListNotFound")

(***************************************************************************)
(* Builtins (functions.rs)                                                 *)
(***************************************************************************)
\* the build profile: TRUE when integer overflow panics (overflow-checks on,
\* the dev profile), FALSE when it wraps (the release profile)
VARIABLE overflow_checks

\* Vec::remove(index), index 0-based and in range
vec_remove(a, index) == SubSeq(a, 1, index) \o SubSeq(a, index + 2, Len(a))

\* insert x into a descending sequence
RECURSIVE insert_desc(_, _)
insert_desc(x, a) ==
    IF a = <<>> THEN <<x>>
    ELSE IF x >= Head(a) THEN <<x>> \o a
    ELSE <<Head(a)>> \o insert_desc(x, Tail(a))

\* sort_unstable followed by reverse
RECURSIVE sort_desc(_)
sort_desc(a) ==
    IF a = <<>> THEN <<>> ELSE insert_desc(Head(a), sort_desc(Tail(a)))

\* split(", ") then filter_map(parse::<usize>().ok())
RECURSIVE parse_indices(_)
parse_indices(toks) ==
    IF toks = <<>> THEN <<>>
    ELSE LET p == parse_usize(Head(toks))
         IN  (IF p.ok THEN <<p.val>> ELSE <<>>) \o parse_indices(Tail(toks))

\* faulty variant: the range check of the removal loop is off by one
RECURSIVE remove_indices_off_by_one(_, _)
remove_indices_off_by_one(a, idxs) ==
    IF idxs = <<>> THEN a
    ELSE remove_indices_off_by_one(
            IF Head(idxs) + 1 < Len(a) THEN vec_remove(a, Head(idxs)) ELSE a,
            Tail(idxs))

\* the removal loop of delete_function: one remove per listed index that is
\* in range for the array as it is by then
RECURSIVE remove_indices(_, _)
remove_indices(a, idxs) ==
    IF idxs = <<>> THEN a
    ELSE remove_indices(IF Head(idxs) < Len(a) THEN vec_remove(a, Head(idxs)) ELSE a,
                        Tail(idxs))

\* faulty variant: an absent key is not reported, the object comes back as is
delete_object_form_ignores_absent(input, sub_needle) ==
    LET key == slice(sub_needle, 1, Len(sub_needle))
    IN  IF is_object(input)
        THEN Ok(Object([k \in (DOMAIN input.v) \ {key} |-> input.v[k]]))
        ELSE Err("DictionaryNotFound")

\* faulty variant: the key is removed from a copy, the object returned still
\* holds it
delete_object_form_keeps_key(input, sub_needle) ==
    LET key == slice(sub_needle, 1, Len(sub_needle))
    IN  IF is_object(input)
        THEN IF key \in DOMAIN input.v
             THEN Ok(input)
             ELSE ErrWith("KeyNotFound", key)
        ELSE Err("DictionaryNotFound")

\* the object-field form del(.key): sub_needle[1..] is the key
delete_object_form(input, sub_needle) ==
    LET key == slice(sub_needle, 1, Len(sub_needle))
    IN  IF is_object(input)
        THEN IF key \in DOMAIN input.v
             THEN Ok(Object([k \in (DOMAIN input.v) \ {key} |-> input.v[k]]))
             ELSE ErrWith("KeyNotFound", key)
        ELSE Err("DictionaryNotFound")

\* faulty variant: an input that is not an array is reported with the error
\* of the object form
delete_array_form_wrong_kind(input, needle) ==
    LET indices_start_index == find(needle, <<"[">>)
        indices_end_index   == find(needle, <<"]">>)
    IN  IF ~slice_ok(needle, indices_start_index + 1, indices_end_index)
        THEN Panic
        ELSE
        LET indices == parse_indices(
                split(slice(needle, indices_start_index + 1, indices_end_index),
                      <<",", " ">>))
        IN  IF is_array(input)
            THEN Ok(Array(remove_indices(input.v, sort_desc(indices))))
            ELSE Err("DictionaryNotFound")

\* faulty variant: a token that does not parse makes the call fail
delete_array_form_strict(input, needle) ==
    LET indices_start_index == find(needle, <<"[">>)
        indices_end_index   == find(needle, <<"]">>)
    IN  IF ~slice_ok(needle, indices_start_index + 1, indices_end_index)
        THEN Panic
        ELSE
        LET toks == split(slice(needle, indices_start_index + 1, indices_end_index),
                          <<",", " ">>)
            indices == parse_indices(toks)
        IN  IF Len(indices) < Len(toks) THEN Err("ParseError")
            ELSE IF is_array(input)
            THEN Ok(Array(remove_indices(input.v, sort_desc(indices))))
            ELSE Err("ListNotFound")

\* the bracketed form del(.[i, j, ...]): the index list is the text between
\* the first '[' and the first ']' of the whole needle
delete_array_form(input, needle) ==
    LET indices_start_index == find(needle, <<"[">>)
        indices_end_index   == find(needle, <<"]">>)
    IN  IF ~slice_ok(needle, indices_start_index + 1, indices_end_index)
        THEN Panic
        ELSE
        LET indices == parse_indices(
                split(slice(needle, indices_start_index + 1, indices_end_index),
                      <<",", " ">>))
        IN  IF is_array(input)
            THEN Ok(Array(remove_indices(input.v, sort_desc(indices))))
            ELSE Err("ListNotFound")

delete_function(input, needle) ==
    IF contains(needle, <<"(">>) /\ contains(needle, <<")">>)
    THEN LET start_index == find(needle, <<"(">>)
             end_index   == find(needle, <<")">>)
         IN  IF ~slice_ok(needle, start_index + 1, end_index) THEN Panic
             ELSE
             LET sub_needle == slice(needle, start_index + 1, end_index)
             IN  IF /\ starts_with(sub_needle, <<".">>)
                    /\ ~contains(sub_needle, <<"[">>)
                    /\ ~contains(sub_needle, <<"]">>)
                 THEN delete_object_form(input, sub_needle)
                 ELSE IF /\ starts_with(sub_needle, <<".">>)
                         /\ contains(sub_needle, <<"[">>)
                         /\ contains(sub_needle, <<"]">>)
                 THEN delete_array_form(input, needle)
                 ELSE Err("InvalidInput")
    ELSE Err("MissingBrackets")

Abs(n) == IF n < 0 THEN -n ELSE n

length_function(input) ==
    CASE input.t = "arr"   -> Ok(Number(Len(input.v)))
      [] input.t = "num"   -> Ok(Number(Abs(input.v)))
      [] input.t = "i64min" -> IF overflow_checks THEN Panic ELSE Ok(I64Min)
      [] input.t = "float" -> Panic
      [] input.t = "str"   -> Ok(Number(Len(input.v)))
      [] input.t = "null"  -> Ok(Number(0))
      [] input.t = "obj"   -> Ok(Number(Cardinality(DOMAIN input.v)))
      [] input.t = "bool"  -> Err("InvalidInput")

\* IntArray::add over filter_map(as_i64): floats are left out of the sum.
\* The documents of the model hold i64::MIN at top level only, not in arrays.
RECURSIVE sum_i64(_)
sum_i64(a) ==
    IF a = <<>> THEN 0
    ELSE (IF Head(a).t = "num" THEN Head(a).v ELSE 0) + sum_i64(Tail(a))

\* StringArray::add
RECURSIVE concat(_)
concat(a) == IF a = <<>> THEN <<>> ELSE Head(a).v \o concat(Tail(a))

add_function(input) ==
    IF is_array(input)
    THEN IF \A i \in 1..Len(input.v) : is_number(input.v[i])
         THEN Ok(Number(sum_i64(input.v)))
         ELSE IF \A i \in 1..Len(input.v) : is_string(input.v[i])
         THEN Ok(String(concat(input.v)))
         ELSE Err("InvalidInput")
    ELSE Err("InvalidInput")

(***************************************************************************)
(* filter_input: one stage against one Value                               *)
(***************************************************************************)
\* faulty variant: no identity branch, "." is looked up as a field with the empty key
filter_identity_as_field(input) ==
    IF has_key(input, <<>>) THEN Ok(input.v[<<>>]) ELSE ErrWith("KeyNotFound", <<>>)

\* the "." stage
filter_identity(input) == SingleValue(input)

\* faulty variant: the bracket content ends at the last ']' of the stage
filter_brackets_last_close(input, needle) ==
    IF is_array(input)
    THEN LET start_index == find(needle, <<"[">>)
             end_index   == Len(needle) - 1 - find(reversed(needle), <<"]">>)
         IN  IF ~slice_ok(needle, start_index + 1, end_index) THEN Panic
             ELSE
             LET index_str == slice(needle, start_index + 1, end_index)
             IN  IF index_str = <<>>
                 THEN array_iterator(input)
                 ELSE IF contains(index_str, <<":">>)
                 THEN array_slice(input, index_str)
                 ELSE array_index(input, index_str)
    ELSE Err("ListNotFound")

\* faulty variant: the bracket content is read before the type of the input
\* is looked at
filter_brackets_reads_first(input, needle) ==
    LET start_index == find(needle, <<"[">>)
        end_index   == find(needle, <<"]">>)
    IN  IF ~slice_ok(needle, start_index + 1, end_index) THEN Panic
        ELSE
        LET index_str == slice(needle, start_index + 1, end_index)
        IN  IF /\ index_str # <<>>
               /\ ~contains(index_str, <<":">>)
               /\ ~parse_usize(index_str).ok
            THEN Err("ParseError")
            ELSE IF ~is_array(input) THEN Err("ListNotFound")
            ELSE IF index_str = <<>>
            THEN array_iterator(input)
            ELSE IF contains(index_str, <<":">>)
            THEN array_slice(input, index_str)
            ELSE array_index(input, index_str)

\* a stage that starts with '.' and contains '[' and ']'
filter_brackets(input, needle) ==
    IF is_array(input)
    THEN LET start_index == find(needle, <<"[">>)
             end_index   == find(needle, <<"]">>)
         IN  IF ~slice_ok(needle, start_index + 1, end_index) THEN Panic
             ELSE
             LET index_str == slice(needle, start_index + 1, end_index)
             IN  IF index_str = <<>>
                 THEN array_iterator(input)
                 ELSE IF contains(index_str, <<":">>)
                 THEN array_slice(input, index_str)
                 ELSE array_index(input, index_str)
    ELSE Err("ListNotFound")

\* faulty variant: length evaluates a field argument, "length(.k)" being the
\* length of the value under k
filter_builtin_applies_argument(input, needle) ==
    IF starts_with(needle, <<"a", "d", "d">>)
    THEN add_function(input)
    ELSE IF starts_with(needle, <<"l", "e", "n", "g", "t", "h">>)
    THEN IF /\ Len(needle) > 9
            /\ SubSeq(needle, 7, 8) = <<"(", ".">>
            /\ needle[Len(needle)] = ")"
         THEN LET r == object_identifier_filter(input, SubSeq(needle, 8, Len(needle) - 1))
              IN  IF r.kind = "SingleValue" THEN length_function(r.value) ELSE r
         ELSE length_function(input)
    ELSE IF starts_with(needle, <<"d", "e", "l">>)
    THEN delete_function(input, needle)
    ELSE ErrWith("InvalidNeedle", needle)

\* a stage that does not start with '.'
filter_builtin(input, needle) ==
    IF starts_with(needle, <<"a", "d", "d">>)
    THEN add_function(input)
    ELSE IF starts_with(needle, <<"l", "e", "n", "g", "t", "h">>)
    THEN length_function(input)
    ELSE IF starts_with(needle, <<"d", "e", "l">>)
    THEN delete_function(input, needle)
    ELSE ErrWith("InvalidNeedle", needle)

filter_input(input, needle) ==
    IF needle = <<".">>
    THEN filter_identity(input)
    ELSE IF /\ starts_with(needle, <<".">>)
            /\ contains(needle, <<"[">>)
            /\ contains(needle, <<"]">>)
    THEN filter_brackets(input, needle)
    ELSE IF starts_with(needle, <<".">>)
    THEN object_identifier_filter(input, needle)
    ELSE filter_builtin(input, needle)

(***************************************************************************)
(* Inputs of the model: documents and expressions                          *)
(***************************************************************************)
\* decimal literal of an integer
RECURSIVE nat_lit(_)
nat_lit(n) ==
    IF n < 10 THEN <<Digits[n + 1]>>
    ELSE nat_lit(n \div 10) \o <<Digits[(n % 10) + 1]>>

int_lit(n) == IF n < 0 THEN <<"-">> \o nat_lit(-n) ELSE nat_lit(n)

Sep == <<" ", "|", " ">>
FieldStage(k) == <<".">> \o k
IndexStage(txt) == <<".", "[">> \o txt \o <<"]">>
SliceStage(a, b) == <<".", "[">> \o a \o <<":">> \o b \o <<"]">>
IterStage == <<".", "[", "]">>
LengthStage == <<"l", "e", "n", "g", "t", "h">>
LengthDotStage == LengthStage \o <<"(", ".", ")">>
AddStage == <<"a", "d", "d">>
DelStage(sub) == <<"d", "e", "l", "(">> \o sub \o <<")">>
Pipe2(a, b) == a \o Sep \o b
Pipe3(a, b, c) == a \o Sep \o b \o Sep \o c

\* the array [1, 2, ..., n]
NumArray(n) == Array([i \in 1..n |-> Number(i)])

ObjAB == Object([k \in {<<"a">>, <<"b">>} |-> IF k = <<"a">> THEN Number(1) ELSE Number(2)])
ObjB == Object([k \in {<<"b">>} |-> Number(5)])
ObjEmptyKey == Object([k \in {<<>>, <<"a">>} |-> IF k = <<>> THEN Number(7) ELSE Number(1)])
ObjNested == Object([k \in {<<"a">>} |-> NumArray(2)])
ObjNone == Object([k \in {} |-> Null])

Docs ==
    {Null, Bool(TRUE), Number(3), Number(-2), Float(15), String(<<"a", "b">>)}
    \cup {I64Min, Number(0), String(<<>>),
          Array(<<Number(1), Float(15)>>),
          Array(<<Number(-2), Number(5)>>),
          Array(<<String(<<"x">>), Number(1)>>),
          Array(<<Null>>)}
    \cup {NumArray(n) : n \in 0..MaxArrayLen}
    \cup {Array(<<NumArray(2), NumArray(1)>>),
          Array(<<NumArray(0), Number(3)>>),
          Array(<<Number(3), NumArray(0)>>),
          Array(<<String(<<"a">>), String(<<"b", "c">>)>>),
          Array(<<Bool(TRUE), Float(15)>>),
          Array(<<ObjAB, ObjB, Number(3)>>),
          Array(<<Array(<<NumArray(2)>>), Array(<<NumArray(1), NumArray(3)>>)>>)}
    \cup {ObjAB, ObjEmptyKey, ObjNested, ObjNone}

\* 2^64 and 2^64 - 1 as index literals
UsizeOverflowLit == SubSeq(UsizeMaxDigits, 1, 19) \o <<"6">>

IndexTexts ==
    {int_lit(i) : i \in (-1)..MaxIndex}
    \cup {<<"+", "1">>, <<"0", "1">>, <<" ", "1">>, <<"x">>,
          UsizeMaxDigits, UsizeOverflowLit}

SliceStages ==
    {SliceStage(int_lit(a), int_lit(b)) : a, b \in (-1)..MaxIndex}
    \cup {SliceStage(<<"1">>, <<>>), SliceStage(<<>>, <<"1">>),
          SliceStage(<<"0">>, UsizeOverflowLit),
          SliceStage(<<>>, <<>>), SliceStage(<<"x">>, <<"1">>),
          SliceStage(<<"0">>, <<"x">>), SliceStage(<<"9">>, <<"x">>),
          SliceStage(<<"0">>, <<"1", ".", "5">>), SliceStage(<<" ", "0">>, <<"1">>)}

\* the keys used in field stages and del stages
Keys == {<<>>, <<"a">>, <<"b">>, <<"c">>}

\* "i, j, ..." for a list of indices
RECURSIVE index_list(_)
index_list(l) ==
    IF Len(l) = 1 THEN int_lit(l[1])
    ELSE int_lit(Head(l)) \o <<",", " ">> \o index_list(Tail(l))

\* the index lists of the del stages: every list of one or two indices, and
\* some of three
DelIndexLists ==
    {<<i>> : i \in 0..MaxIndex}
    \cup {<<i, j>> : i, j \in 0..MaxIndex}
    \cup {<<3, 1, 1>>, <<0, 2, 1>>, <<2, 0, 3>>, <<0, 0, 0>>}

DelStages ==
    {DelStage(IndexStage(index_list(l))) : l \in DelIndexLists}
    \cup {DelStage(FieldStage(k)) : k \in Keys}
    \cup {DelStage(IndexStage(<<>>)), DelStage(IndexStage(<<"x">>)),
          DelStage(IndexStage(<<"1", ",", "3">>)),
          DelStage(IndexStage(<<"x", ",", " ", "1">>)),
          <<"d", "e", "l", "(">>, <<"d", "e", "l", ")">>,
          <<"d", "e", "l", "(", ".", "a">>, <<"d", "e", "l", ".", "a", ")">>,
          <<"d", "e", "l", ")", ".", "a", "(">>,
          DelStage(<<"a">>), DelStage(<<>>)}

\* tokens of an index list: three that are indices, "+2" that parses as 2, and
\* six that do not parse
DelTokens ==
    {<<"0">>, <<"1">>, <<"3">>, <<"+", "2">>,
     <<"x">>, <<"-", "1">>, <<>>, <<"1", ".", "5">>, <<" ", "0">>, <<"1", ",", "3">>}

\* the tokens of l joined with ", "
RECURSIVE token_list(_)
token_list(l) ==
    IF Len(l) = 1 THEN l[1]
    ELSE Head(l) \o <<",", " ">> \o token_list(Tail(l))

DelTokenLists ==
    {<<t>> : t \in DelTokens}
    \cup {<<t, u>> : t, u \in DelTokens}
    \cup {<<<<"x">>, <<"3">>, <<"1">>>>, <<<<"1">>, <<"x">>, <<"-", "1">>>>,
          <<<<>>, <<>>, <<"0">>>>}

DelTokenStages == {DelStage(IndexStage(token_list(l))) : l \in DelTokenLists}

\* "del(.k) | .k" with further del stages in between
DelThenQuery ==
    {Pipe2(DelStage(FieldStage(k)), FieldStage(k)) : k \in Keys}
    \cup {Pipe3(DelStage(FieldStage(k)), DelStage(FieldStage(j)), FieldStage(k)) :
             k, j \in Keys}

\* stages whose text goes on after the name of a builtin
AddressStage == <<"a", "d", "d", "r", "e", "s", "s">>
LengthyStage == LengthStage \o <<"y">>
DeltaStage == <<"d", "e", "l", "t", "a">>
LengthFieldStage == LengthStage \o <<"(", ".", "a", ")">>
AddDotStage == AddStage \o <<"(", ".", ")">>
PrefixStages ==
    {AddressStage, LengthyStage, DeltaStage, LengthFieldStage, AddDotStage,
     AddStage \o <<" ">>, LengthStage \o <<" ", "x">>}

\* bracketed stages with text before the '[' or after the ']'
BracketExtraStages ==
    {<<".", "[", "0", "]", "[", "1", "]">>,
     <<".", "f", "o", "o", "[", "0", "]">>,
     <<".", "a", "[", "]">>,
     <<".", "[", "]", "x">>,
     <<".", "[", "]", "[", "0", "]">>,
     <<".", "[", "1", ":", "2", "]", "[", "0", "]">>,
     <<".", "x", "[", "0", ":", "1", "]">>,
     <<".", "[", "0", "]", "]">>,
     <<".", "[", "[", "0", "]">>,
     <<".", "[", "0", ":", "1", ":", "2", "]">>,
     <<".", "a", "[", "9", "]", "b">>,
     <<".", "a", "[", "x", "]", ":">>}

\* stages evaluated on their own
SingleStages ==
    {<<".">>, FieldStage(<<"a">>), FieldStage(<<"b">>), FieldStage(<<"c">>),
     IterStage, LengthStage, LengthDotStage, AddStage,
     DelStage(IndexStage(<<"1">>)), DelStage(IndexStage(<<"0">>)),
     DelStage(IndexStage(<<"1", ",", " ", "3">>)),
     DelStage(FieldStage(<<"a">>)),
     <<"d", "e", "l">>, <<"d", "e", "l", ")", "(">>,
     <<".", "]", "0", "[">>,
     <<"i", "n", "v", "a", "l", "i", "d", "_", "c", "o", "m", "m", "a", "n", "d">>,
     <<>>}
    \cup {IndexStage(t) : t \in IndexTexts}
    \cup SliceStages
    \cup DelStages
    \cup PrefixStages
    \cup BracketExtraStages
    \cup DelTokenStages

\* stages combined into pipelines of two
PairStages ==
    {<<".">>, FieldStage(<<"a">>), FieldStage(<<"b">>), IterStage,
     IndexStage(<<"0">>), IndexStage(<<"1">>), SliceStage(<<"0">>, <<"2">>),
     LengthStage, LengthDotStage, AddStage,
     DelStage(IndexStage(<<"1">>)), DelStage(IndexStage(<<"0">>)),
     DelStage(FieldStage(<<"a">>)),
     <<".", "]", "0", "[">>, <<"n", "o">>}

\* stages combined into pipelines of three
TripleStages ==
    {<<".">>, FieldStage(<<"a">>), IterStage, IndexStage(<<"0">>),
     LengthStage, AddStage,
     DelStage(IndexStage(<<"1">>)), DelStage(IndexStage(<<"0">>)),
     DelStage(FieldStage(<<"a">>))}

Exprs ==
    SingleStages
    \cup {Pipe2(a, b) : a, b \in PairStages}
    \cup {Pipe3(a, b, c) : a, b, c \in TripleStages}
    \cup {Pipe3(DelStage(IndexStage(<<"1">>)), DelStage(IndexStage(<<"0">>)), LengthDotStage)}
    \cup DelThenQuery

(***************************************************************************)
(* pipe: the state of one call                                             *)
(***************************************************************************)
VARIABLES
    input,             \* the caller's document (&Value)
    needle,            \* the expression
    pc,                \* "start", "loop", "fan" or "done"
    current_input,     \* the local current_input
    sub_needles,       \* the stages the Split iterator has not yielded yet
    iter,              \* the items the boxed iterator has not yielded yet
    next_needle,       \* the stage applied to the items of iter
    filtered_results,  \* the Vec collected from the items
    result,            \* what the call returned, NoResult before it returns
    trace              \* history: every filter_input call of this pipe call

\* the state of a ThreadPool<T> and of the threads that use it
\* (assignments/05-concurrency); it stays as PoolUnused while pipe runs
VARIABLES
    num_threads,       \* the argument of ThreadPool::new
    workers,           \* the JoinHandles not joined yet, in spawn order
    job_sender,        \* TRUE while self.job_sender is Some
    job_channel,       \* the jobs sent and not received yet
    job_receiver_lock, \* the worker holding the job_receiver mutex, 0 if free
    result_channel,    \* the results sent and not received yet
    worker_pc,         \* per worker: "lock", "recv", "run", "send" or "exited"
    worker_job,        \* per worker: the value its job returns
    main_pc,           \* where the thread that owns the pool is
    results,           \* the local Vec of get_results
    last_execute,      \* what the last execute call returned
    accepted,          \* history: the values of the jobs execute accepted
    closes,            \* history: the number of close calls that returned
    fetched            \* history: the get_results calls, in order

pool_vars == <<num_threads, workers, job_sender, job_channel, job_receiver_lock,
               result_channel, worker_pc, worker_job, main_pc, results,
               last_execute, accepted, closes, fetched>>

PoolUnused ==
    /\ num_threads = 0
    /\ workers = <<>>
    /\ job_sender = FALSE
    /\ job_channel = <<>>
    /\ job_receiver_lock = 0
    /\ result_channel = <<>>
    /\ worker_pc = <<>>
    /\ worker_job = <<>>
    /\ main_pc = "unused"
    /\ results = <<>>
    /\ last_execute = "none"
    /\ accepted = <<>>
    /\ closes = 0
    /\ fetched = <<>>

jq_vars == <<input, needle, pc, current_input, sub_needles, iter, next_needle,
             filtered_results, result, trace, overflow_checks>>

vars == <<jq_vars, pool_vars>>

\* the stages of the expression
Stages == IF contains(needle, Sep) THEN split(needle, Sep) ELSE <<needle>>

\* one entry of trace: what was evaluated, on what, with what outcome; idx is
\* the position of the stage in the expression, at is "stage" for a call on
\* current_input and "item" for a call on an item of a Sequence
Call(idx, at, n, on, out) ==
    [idx |-> idx, at |-> at, needle |-> n, on |-> on, out |-> out]

Init ==
    /\ input \in Docs
    /\ needle \in Exprs
    /\ overflow_checks \in BOOLEAN
    /\ pc = "start"
    /\ PoolUnused
    /\ current_input = Null
    /\ sub_needles = <<>>
    /\ iter = <<>>
    /\ next_needle = <<>>
    /\ filtered_results = <<>>
    /\ result = NoResult
    /\ trace = <<>>

\* pipe, an expression with " | ": clone the input, split the expression
pipe_split ==
    /\ pc = "start"
    /\ contains(needle, Sep)
    /\ current_input' = input
    /\ sub_needles' = split(needle, Sep)
    /\ pc' = "loop"
    /\ UNCHANGED <<pool_vars, overflow_checks, input, needle, iter, next_needle, filtered_results, result, trace>>

\* faulty variant: a del stage works on the caller's document itself
pipe_single_in_place ==
    /\ pc = "start"
    /\ ~contains(needle, Sep)
    /\ LET filter_result == filter_input(input, needle)
       IN  /\ result' = filter_result
           /\ trace' = Append(trace, Call(1, "stage", needle, input, filter_result))
           /\ input' = IF /\ filter_result.kind = "SingleValue"
                          /\ starts_with(needle, <<"d", "e", "l">>)
                       THEN filter_result.value
                       ELSE input
           /\ current_input' = input'
    /\ pc' = "done"
    /\ UNCHANGED <<pool_vars, overflow_checks, needle, sub_needles, iter, next_needle, filtered_results>>

\* pipe, an expression without " | ": the stage is evaluated directly
pipe_single ==
    /\ pc = "start"
    /\ ~contains(needle, Sep)
    /\ current_input' = input
    /\ LET filter_result == filter_input(input, needle)
       IN  /\ result' = filter_result
           /\ trace' = Append(trace, Call(1, "stage", needle, input, filter_result))
    /\ pc' = "done"
    /\ UNCHANGED <<pool_vars, overflow_checks, input, needle, sub_needles, iter, next_needle, filtered_results>>

\* one iteration of the while loop, the stage being evaluated on cur
stage_step(cur) ==
    /\ pc = "loop"
    /\ sub_needles # <<>>
    /\ LET sub_needle    == Head(sub_needles)
           idx           == Len(Stages) - Len(sub_needles) + 1
           filter_result == filter_input(cur, sub_needle)
       IN  /\ trace' = Append(trace, Call(idx, "stage", sub_needle, cur, filter_result))
           /\ CASE filter_result.kind = "SingleValue" ->
                     /\ current_input' = filter_result.value
                     /\ sub_needles' = Tail(sub_needles)
                     /\ UNCHANGED <<pc, iter, next_needle, filtered_results, result>>
                [] filter_result.kind = "Iterator" /\ Tail(sub_needles) # <<>> ->
                     /\ next_needle' = Head(Tail(sub_needles))
                     /\ sub_needles' = Tail(Tail(sub_needles))
                     /\ iter' = filter_result.items
                     /\ filtered_results' = <<>>
                     /\ pc' = "fan"
                     /\ UNCHANGED <<current_input, result>>
                [] filter_result.kind = "Iterator" /\ Tail(sub_needles) = <<>> ->
                     /\ sub_needles' = <<>>
                     /\ result' = filter_result
                     /\ pc' = "done"
                     /\ UNCHANGED <<current_input, iter, next_needle, filtered_results>>
                [] OTHER ->
                     /\ sub_needles' = Tail(sub_needles)
                     /\ result' = filter_result
                     /\ pc' = "done"
                     /\ UNCHANGED <<current_input, iter, next_needle, filtered_results>>
    /\ UNCHANGED <<pool_vars, overflow_checks, input, needle>>

\* faulty variant: every stage is evaluated on the original document
pipe_stage_on_document == stage_step(input)

\* filter_input(&current_input.clone(), sub_needle) and the match on its result
pipe_stage == stage_step(current_input)

\* one iteration of the for loop over the items of the Sequence, the item
\* being evaluated against stage
item_step(stage) ==
    /\ pc = "fan"
    /\ iter # <<>>
    /\ LET item == Head(iter)
           idx  == Len(Stages) - Len(sub_needles)
           r    == filter_input(item, stage)
       IN  /\ trace' = Append(trace, Call(idx, "item", stage, item, r))
           /\ iter' = Tail(iter)
           /\ CASE r.kind = "SingleValue" ->
                     /\ filtered_results' = Append(filtered_results, r.value)
                     /\ UNCHANGED <<pc, result>>
                [] r.kind = "Iterator" ->
                     /\ filtered_results' = filtered_results \o r.items
                     /\ UNCHANGED <<pc, result>>
                [] OTHER ->
                     /\ result' = r
                     /\ pc' = "done"
                     /\ UNCHANGED filtered_results
    /\ UNCHANGED <<pool_vars, overflow_checks, input, needle, current_input, sub_needles, next_needle>>

\* faulty variant: the items are collected as they are, next_needle is not applied
pipe_item_unfiltered == item_step(<<".">>)

\* faulty variant: a failing item is skipped and the loop goes on
pipe_item_skips_errors ==
    /\ pc = "fan"
    /\ iter # <<>>
    /\ LET item == Head(iter)
           idx  == Len(Stages) - Len(sub_needles)
           r    == filter_input(item, next_needle)
       IN  /\ trace' = Append(trace, Call(idx, "item", next_needle, item, r))
           /\ iter' = Tail(iter)
           /\ filtered_results' =
                 CASE r.kind = "SingleValue" -> Append(filtered_results, r.value)
                   [] r.kind = "Iterator" -> filtered_results \o r.items
                   [] OTHER -> filtered_results
    /\ UNCHANGED <<pool_vars, overflow_checks, input, needle, current_input, sub_needles, next_needle, pc, result>>

\* faulty variant: every turn of the for loop takes the first item of a fresh
\* copy of the Sequence, which is thus iterated again
pipe_item_restarts ==
    /\ pc = "fan"
    /\ iter # <<>>
    /\ LET p    == CHOOSE q \in 1..Len(trace) :
                       /\ trace[q].at = "stage"
                       /\ \A k \in (q + 1)..Len(trace) : trace[k].at = "item"
           item == Head(trace[p].out.items)
           idx  == Len(Stages) - Len(sub_needles)
           r    == filter_input(item, next_needle)
       IN  /\ trace' = Append(trace, Call(idx, "item", next_needle, item, r))
           /\ iter' = Tail(iter)
           /\ CASE r.kind = "SingleValue" ->
                     /\ filtered_results' = Append(filtered_results, r.value)
                     /\ UNCHANGED <<pc, result>>
                [] r.kind = "Iterator" ->
                     /\ filtered_results' = filtered_results \o r.items
                     /\ UNCHANGED <<pc, result>>
                [] OTHER ->
                     /\ result' = r
                     /\ pc' = "done"
                     /\ UNCHANGED filtered_results
    /\ UNCHANGED <<pool_vars, overflow_checks, input, needle, current_input, sub_needles, next_needle>>

\* faulty variant: the Sequence an item yields is pushed as one array
pipe_item_nests ==
    /\ pc = "fan"
    /\ iter # <<>>
    /\ LET item == Head(iter)
           idx  == Len(Stages) - Len(sub_needles)
           r    == filter_input(item, next_needle)
       IN  /\ trace' = Append(trace, Call(idx, "item", next_needle, item, r))
           /\ iter' = Tail(iter)
           /\ CASE r.kind = "SingleValue" ->
                     /\ filtered_results' = Append(filtered_results, r.value)
                     /\ UNCHANGED <<pc, result>>
                [] r.kind = "Iterator" ->
                     /\ filtered_results' = Append(filtered_results, Array(r.items))
                     /\ UNCHANGED <<pc, result>>
                [] OTHER ->
                     /\ result' = r
                     /\ pc' = "done"
                     /\ UNCHANGED filtered_results
    /\ UNCHANGED <<pool_vars, overflow_checks, input, needle, current_input, sub_needles, next_needle>>

\* filter_input(&item.clone(), next_needle) and the match on its result
pipe_item == item_step(next_needle)

\* the for loop is over: Value::Array(collected) becomes current_input
collect_step(collected) ==
    /\ pc = "fan"
    /\ iter = <<>>
    /\ current_input' = Array(collected)
    /\ pc' = "loop"
    /\ UNCHANGED <<pool_vars, overflow_checks, input, needle, sub_needles, iter, next_needle, filtered_results,
                   result, trace>>

\* faulty variant: the collected results are stored in reverse order
pipe_collect_reversed == collect_step(reversed(filtered_results))

\* Value::Array(filtered_results)
pipe_collect == collect_step(filtered_results)

\* the while loop is over: Ok(SingleValue(current_input))
pipe_return ==
    /\ pc = "loop"
    /\ sub_needles = <<>>
    /\ result' = SingleValue(current_input)
    /\ pc' = "done"
    /\ UNCHANGED <<pool_vars, overflow_checks, input, needle, current_input, sub_needles, iter, next_needle,
                   filtered_results, trace>>

Next ==
    \/ pipe_split
    \/ pipe_single
    \/ pipe_stage
    \/ pipe_item
    \/ pipe_collect
    \/ pipe_return

Spec == Init /\ [][Next]_vars

TypeOK ==
    /\ pc \in {"start", "loop", "fan", "done"}
    /\ result.kind \in {"None", "SingleValue", "Iterator", "Err", "Panic"}
    /\ (pc = "done") = (result # NoResult)

(***************************************************************************)
(* Reference semantics used by the properties                              *)
(***************************************************************************)
\* left-to-right composition of stages that all yield a single value;
\* NoResult when some stage does not
RECURSIVE compose(_, _)
compose(x, stages) ==
    IF stages = <<>> THEN SingleValue(x)
    ELSE LET r == filter_input(x, Head(stages))
         IN  IF r.kind = "SingleValue" THEN compose(r.value, Tail(stages)) ELSE NoResult

all_single(items, stage) ==
    \A i \in 1..Len(items) : filter_input(items[i], stage).kind = "SingleValue"

map_stage(items, stage) ==
    [i \in 1..Len(items) |-> filter_input(items[i], stage).value]

\* what the calls trace[a..b] contributed to the collected array
RECURSIVE flat_outs(_, _, _)
flat_outs(tr, a, b) ==
    IF a > b THEN <<>>
    ELSE (CASE tr[a].out.kind = "SingleValue" -> <<tr[a].out.value>>
            [] tr[a].out.kind = "Iterator" -> tr[a].out.items
            [] OTHER -> <<>>)
         \o flat_outs(tr, a + 1, b)

Done == pc = "done"

LastCall == trace[Len(trace)]

ErrorKinds ==
    {"KeyNotFound", "IndexOutOfBounds", "ParseError", "MissingBrackets",
     "ListNotFound", "DictionaryNotFound", "InvalidNeedle", "InvalidInput"}

(***************************************************************************)
(* Properties                                                              *)
(***************************************************************************)
\* C1: for every Value V, pipe(V, ".") returns SingleValue(V), never an error.
C1_IdentityReturnsInput ==
    (Done /\ needle = <<".">>) => result = SingleValue(input)

C1_Witness ==
    Done /\ needle = <<".">> /\ input = ObjAB /\ result = SingleValue(ObjAB)

\* C2: when every stage of a pipeline yields a single value, the result is the
\* single value of the left-to-right composition of the stages, each stage
\* being evaluated on the output of the stage before it; on [1,2,3,4],
\* "del(.[1]) | del(.[0]) | length(.)" yields 2.
C2_SinglesCompose ==
    /\ \A i \in 2..Len(trace) :
          (/\ trace[i].at = "stage"
           /\ trace[i - 1].at = "stage"
           /\ trace[i - 1].out.kind = "SingleValue")
              => trace[i].on = trace[i - 1].out.value
    /\ (Done /\ contains(needle, Sep) /\ compose(input, Stages) # NoResult)
          => result = compose(input, Stages)
    /\ (/\ Done
        /\ input = NumArray(4)
        /\ needle = Pipe3(DelStage(IndexStage(<<"1">>)), DelStage(IndexStage(<<"0">>)),
                          LengthDotStage))
          => result = SingleValue(Number(2))

C2_Witness ==
    /\ Done
    /\ input = NumArray(4)
    /\ needle = Pipe3(DelStage(IndexStage(<<"1">>)), DelStage(IndexStage(<<"0">>)),
                      LengthDotStage)
    /\ Len(trace) = 3
    /\ trace[2].on = Array(<<Number(1), Number(3), Number(4)>>)
    /\ result = SingleValue(Number(2))

\* C3 as stated: ".[] | s1 | s2" over an array A yields the single array whose
\* entries are the results of the pipeline "s1 | s2" applied to each A[i].
C3_WholeChainPerElement ==
    (/\ Done
     /\ Len(Stages) = 3
     /\ Stages[1] = IterStage
     /\ is_array(input)
     /\ \A i \in 1..Len(input.v) :
           compose(input.v[i], <<Stages[2], Stages[3]>>) # NoResult)
        => result = SingleValue(Array(
              [i \in 1..Len(input.v) |->
                  compose(input.v[i], <<Stages[2], Stages[3]>>).value]))

\* C3 amended: when a non-last stage yields a Sequence, every element is
\* evaluated against the next stage only, the outcomes are collected in element
\* order into one array, and the stages after that one are evaluated once, on
\* the collected array: ".[] | s1 | s2" yields what s2 yields on the array of
\* the s1 results.
C3_NextStagePerElement ==
    /\ (/\ Done
        /\ Len(Stages) = 3
        /\ Stages[1] = IterStage
        /\ is_array(input)
        /\ all_single(input.v, Stages[2]))
          => result = filter_input(Array(map_stage(input.v, Stages[2])), Stages[3])
    /\ \A f \in 1..Len(trace) : \A g \in (f + 1)..Len(trace) :
          (/\ trace[f].at = "stage"
           /\ trace[f].out.kind = "Iterator"
           /\ trace[g].at = "stage"
           /\ \A j \in (f + 1)..(g - 1) : trace[j].at = "item")
          => /\ g - f - 1 = Len(trace[f].out.items)
             /\ \A j \in (f + 1)..(g - 1) :
                   /\ trace[j].on = trace[f].out.items[j - f]
                   /\ trace[j].needle = Stages[trace[f].idx + 1]
             /\ trace[g].idx = trace[f].idx + 2
             /\ trace[g].on = Array(flat_outs(trace, f + 1, g - 1))

C3_Witness ==
    /\ Done
    /\ input = Array(<<NumArray(2), NumArray(1)>>)
    /\ needle = Pipe3(IterStage, LengthStage, LengthStage)
    /\ result = SingleValue(Number(2))

\* C4: for every array A, ".[] | length" returns the single array L with
\* L[i] = length(A[i]), and fails exactly when length fails on some element.
C4_IterateThenLength ==
    (/\ Done
     /\ needle \in {Pipe2(IterStage, LengthStage), Pipe2(IterStage, LengthDotStage)}
     /\ is_array(input))
        => IF \A i \in 1..Len(input.v) : is_ok(length_function(input.v[i]))
           THEN /\ result.kind = "SingleValue"
                /\ result.value.t = "arr"
                /\ Len(result.value.v) = Len(input.v)
                /\ \A i \in 1..Len(input.v) :
                      result.value.v[i] = length_function(input.v[i]).value
           ELSE ~is_ok(result)

C4_Witness ==
    /\ Done
    /\ needle = Pipe2(IterStage, LengthStage)
    /\ input = Array(<<NumArray(2), NumArray(1)>>)
    /\ result = SingleValue(Array(<<Number(2), Number(1)>>))

\* C5: pipe returns a Sequence exactly when the last stage, evaluated on the
\* current value, yields one; it is then that Sequence, un-iterated.
C5_SequenceOnlyWhenTerminal ==
    (Done /\ trace # <<>>) =>
        LET terminal == /\ LastCall.at = "stage"
                        /\ LastCall.idx = Len(Stages)
                        /\ LastCall.out.kind = "Iterator"
        IN  /\ terminal => (result = LastCall.out /\ result.items = LastCall.on.v)
            /\ result.kind = "Iterator" => terminal

C5_Witness ==
    /\ Done
    /\ needle = Pipe2(FieldStage(<<"a">>), IterStage)
    /\ input = ObjNested
    /\ result = Iterator(<<Number(1), Number(2)>>)

\* C6: when a stage fails, pipe returns the error of that first failing stage
\* (for a fanned-out stage, of the first failing element in element order);
\* nothing is evaluated after it and no partial result is returned.
C6_FirstErrorAborts ==
    /\ \A i \in 1..Len(trace) :
          trace[i].out.kind = "Err"
              => (i = Len(trace) /\ Done /\ result = trace[i].out)
    /\ \A i \in 1..Len(trace) :
          trace[i].at = "stage"
              => /\ trace[i].needle = Stages[trace[i].idx]
                 /\ \A j \in 1..(i - 1) : trace[j].idx < trace[i].idx
    /\ \A f \in 1..Len(trace) : \A j \in (f + 1)..Len(trace) :
          (/\ trace[f].at = "stage"
           /\ \A m \in (f + 1)..j : trace[m].at = "item")
              => /\ trace[f].out.kind = "Iterator"
                 /\ trace[j].on = trace[f].out.items[j - f]
                 /\ trace[j].needle = Stages[trace[f].idx + 1]
    /\ (Done /\ result.kind = "Err") => (trace # <<>> /\ LastCall.out = result)

C6_Witness ==
    /\ Done
    /\ input = Array(<<NumArray(0), Number(3)>>)
    /\ needle = Pipe3(IterStage, IndexStage(<<"0">>), LengthStage)
    /\ Len(trace) = 2
    /\ result = Err("IndexOutOfBounds")

\* C7 as stated: for every Value and every expression, malformed ones
\* included, one pipe call returns Ok or Err with one of the listed error
\* kinds; it never panics.
C7_AlwaysTypedOutcome ==
    Done => \/ result.kind \in {"SingleValue", "Iterator"}
            \/ (result.kind = "Err" /\ result.err \in ErrorKinds)

\* a stage ".k" whose key k holds no bracket character
is_field_stage(n) ==
    /\ starts_with(n, <<".">>)
    /\ ~contains(n, <<"[">>)
    /\ ~contains(n, <<"]">>)
    /\ ~contains(n, Sep)

field_lookup(x, k) ==
    IF is_object(x) /\ k \in DOMAIN x.v
    THEN SingleValue(x.v[k])
    ELSE ErrWith("KeyNotFound", k)

\* C8 as stated: for every Value V and every key k without bracket characters,
\* ".k" returns SingleValue(V[k]) when V is an object that contains k and fails
\* with KeyNotFound(k) otherwise.
C8_FieldLookupAnyKey ==
    (Done /\ is_field_stage(needle)) => result = field_lookup(input, Tail(needle))

\* C8 amended: the same for every non-empty key k; with the empty key the stage
\* is "." and returns SingleValue(V).
C8_FieldLookupNonEmptyKey ==
    /\ (Done /\ is_field_stage(needle) /\ Tail(needle) # <<>>)
          => result = field_lookup(input, Tail(needle))
    /\ (Done /\ is_field_stage(needle) /\ Tail(needle) = <<>>)
          => result = SingleValue(input)

C8_Witness ==
    /\ Done
    /\ input = ObjAB
    /\ needle = FieldStage(<<"c">>)
    /\ result = ErrWith("KeyNotFound", <<"c">>)

\* a non-empty run of decimal digits
is_nat_literal(txt) ==
    txt # <<>> /\ \A i \in 1..Len(txt) : is_digit(txt[i])

\* the literal denotes a number of at most nine significant digits, which
\* TLC can compute
is_small_literal(txt) == Len(strip_zeros(txt)) <= 9

\* the literal denotes a number above usize::MAX
exceeds_usize(txt) ==
    LET sig == strip_zeros(txt)
    IN  \/ Len(sig) > Len(UsizeMaxDigits)
        \/ (Len(sig) = Len(UsizeMaxDigits) /\ digits_gt(sig, UsizeMaxDigits))

\* the text between the brackets of a stage built by IndexStage
index_text(n) == SubSeq(n, 3, Len(n) - 1)

is_index_stage(n) ==
    /\ Len(n) >= 4
    /\ n = IndexStage(index_text(n))
    /\ is_nat_literal(index_text(n))

\* C9 as stated: for every array A of length N and every non-negative integer
\* literal i, ".[i]" is SingleValue(A[i]) if i < N and Err(IndexOutOfBounds)
\* if i >= N.
C9_IndexAnyLiteral ==
    (Done /\ is_index_stage(needle) /\ is_array(input)) =>
        LET txt == index_text(needle)
        IN  IF is_small_literal(txt) /\ digits_value(txt, 0) < Len(input.v)
            THEN result = SingleValue(input.v[digits_value(txt, 0) + 1])
            ELSE result = Err("IndexOutOfBounds")

\* C9 amended: the same for every literal i that fits the machine word
\* (i <= usize::MAX); a literal above usize::MAX fails with ParseError.
C9_IndexLiteralInWord ==
    (Done /\ is_index_stage(needle) /\ is_array(input)) =>
        LET txt == index_text(needle)
        IN  IF exceeds_usize(txt)
            THEN result = Err("ParseError")
            ELSE IF is_small_literal(txt) /\ digits_value(txt, 0) < Len(input.v)
            THEN result = SingleValue(input.v[digits_value(txt, 0) + 1])
            ELSE result = Err("IndexOutOfBounds")

C9_Witness ==
    /\ Done
    /\ input = NumArray(3)
    /\ needle = IndexStage(<<"3">>)
    /\ result = Err("IndexOutOfBounds")

\* C10: for every array A of length N and integers a, b, ".[a:b]" succeeds iff
\* 0 <= a < b <= N, and then returns the single array A[a], ..., A[b-1], of
\* length b - a.
C10_SliceRange ==
    \A a, b \in (-1)..MaxIndex :
        (/\ Done
         /\ needle = SliceStage(int_lit(a), int_lit(b))
         /\ is_array(input))
            => /\ is_ok(result) <=> (0 <= a /\ a < b /\ b <= Len(input.v))
               /\ is_ok(result) =>
                     /\ result.kind = "SingleValue"
                     /\ result.value.t = "arr"
                     /\ Len(result.value.v) = b - a
                     /\ \A i \in 1..(b - a) : result.value.v[i] = input.v[a + i]

C10_Witness ==
    /\ Done
    /\ input = NumArray(4)
    /\ needle = SliceStage(<<"1">>, <<"3">>)
    /\ result = SingleValue(Array(<<Number(2), Number(3)>>))

\* C11: ".[]" on an array returns a Sequence of exactly the elements of the
\* array, each once, in order (empty for the empty array); on any other input
\* it fails with ListNotFound.
C11_IterateArray ==
    (Done /\ needle = IterStage) =>
        result = IF is_array(input) THEN Iterator(input.v) ELSE Err("ListNotFound")

C11_Witness ==
    /\ Done
    /\ needle = IterStage
    /\ input = NumArray(3)
    /\ result = Iterator(<<Number(1), Number(2), Number(3)>>)

\* a single stage that starts with '.' and has a '[' before its first ']'
is_bracket_stage(n) ==
    /\ ~contains(n, Sep)
    /\ starts_with(n, <<".">>)
    /\ contains(n, <<"[">>)
    /\ contains(n, <<"]">>)
    /\ find(n, <<"[">>) < find(n, <<"]">>)

\* the text between the first '[' and the first ']'
bracket_content(n) == slice(n, find(n, <<"[">>) + 1, find(n, <<"]">>))

\* a non-negative integer literal: decimal digits, a '+' sign allowed
is_index_literal(txt) ==
    is_nat_literal(IF txt # <<>> /\ Head(txt) = "+" THEN Tail(txt) ELSE txt)

\* an integer literal: decimal digits, a sign allowed
is_integer_literal(txt) ==
    is_nat_literal(IF txt # <<>> /\ Head(txt) \in {"+", "-"} THEN Tail(txt) ELSE txt)

\* bracket content that is an index, but not a non-negative integer literal
malformed_index(c) ==
    c # <<>> /\ ~contains(c, <<":">>) /\ ~is_index_literal(c)

\* bracket content that is a slice with a missing or non-integer bound
malformed_slice(c) ==
    /\ contains(c, <<":">>)
    /\ LET parts == split(c, <<":">>)
       IN  ~is_integer_literal(parts[1]) \/ ~is_integer_literal(parts[2])

\* C12: a bracketed stage on an array whose bracket content is non-empty and
\* malformed (an index that is not a non-negative integer literal, a slice
\* with a missing or non-integer bound) fails with ParseError, whatever the
\* length of the array.
C12_MalformedIsParseError ==
    (/\ Done
     /\ is_bracket_stage(needle)
     /\ is_array(input)
     /\ (malformed_index(bracket_content(needle))
            \/ malformed_slice(bracket_content(needle))))
        => result = Err("ParseError")

C12_Witness ==
    /\ Done
    /\ input = NumArray(2)
    /\ needle = SliceStage(<<"9">>, <<"x">>)
    /\ result = Err("ParseError")

\* the del stages whose index list is one of DelIndexLists
DelIndexStages == {DelStage(IndexStage(index_list(l))) : l \in DelIndexLists}

\* the index list a stage of DelIndexStages was written with
listed_indices(n) ==
    CHOOSE l \in DelIndexLists : n = DelStage(IndexStage(index_list(l)))

seq_range(l) == {l[i] : i \in 1..Len(l)}

\* the elements of a whose 0-based position, counted from pos, is not in drop
RECURSIVE without_positions(_, _, _)
without_positions(a, pos, drop) ==
    IF a = <<>> THEN <<>>
    ELSE (IF pos \in drop THEN <<>> ELSE <<Head(a)>>)
         \o without_positions(Tail(a), pos + 1, drop)

\* C13 as stated: for an array A and any list of indices given to
\* del(.[i, j, ...]), in any order and with repeated indices, the result is A
\* without the elements at the listed original positions, all other elements
\* kept in order.
C13_DelRemovesListedPositions ==
    (Done /\ needle \in DelIndexStages /\ is_array(input)) =>
        result = SingleValue(Array(
            without_positions(input.v, 0, seq_range(listed_indices(needle)))))

\* C14: del(.[...]) on an array never fails because of an out-of-range index:
\* the listed indices >= the array length are skipped, the listed in-range
\* indices are removed, and the array is returned unchanged when every listed
\* index is out of range.
C14_OutOfRangeSkipped ==
    (Done /\ needle \in DelIndexStages /\ is_array(input)) =>
        LET l       == listed_indices(needle)
            N       == Len(input.v)
            inrange == {i \in seq_range(l) : i < N}
        IN  /\ result.kind = "SingleValue"
            /\ result.value.t = "arr"
            /\ inrange = {} => result.value = input
            /\ Len(result.value.v) <= N - Cardinality(inrange)
            /\ (\E n \in 0..N : input = NumArray(n))
                  => \A i \in inrange :
                        input.v[i + 1] \notin seq_range(result.value.v)
            /\ (\A i, j \in 1..Len(l) : l[i] = l[j] => i = j)
                  => result.value.v = without_positions(input.v, 0, inrange)

C14_Witness ==
    /\ Done
    /\ input = NumArray(3)
    /\ needle = DelStage(IndexStage(<<"5", ",", " ", "1">>))
    /\ result = SingleValue(Array(<<Number(1), Number(3)>>))

\* a key that can be written in ".k" and in "del(.k)": no bracket, no
\* parenthesis, no stage separator
is_plain_key(k) ==
    /\ \A i \in 1..Len(k) : k[i] \notin {"[", "]", "(", ")"}
    /\ ~contains(k, Sep)

\* the key of a stage "del(.k)"
del_key(n) == SubSeq(n, 6, Len(n) - 1)

is_del_field_stage(n) ==
    /\ Len(n) >= 6
    /\ n = DelStage(FieldStage(del_key(n)))
    /\ is_plain_key(del_key(n))

\* the index text of a stage "del(.[...])"
del_index_text(n) == SubSeq(n, 7, Len(n) - 2)

is_del_index_stage(n) ==
    /\ Len(n) >= 8
    /\ n = DelStage(IndexStage(del_index_text(n)))
    /\ is_plain_key(del_index_text(n))

\* C15: del(.k) on an object that contains k returns the object without k,
\* every other key kept with its value and the key count one less; on an
\* object without k it fails with KeyNotFound(k).
C15_DelKey ==
    (Done /\ is_del_field_stage(needle) /\ is_object(input)) =>
        LET k == del_key(needle)
        IN  IF k \in DOMAIN input.v
            THEN /\ result.kind = "SingleValue"
                 /\ result.value.t = "obj"
                 /\ DOMAIN result.value.v = (DOMAIN input.v) \ {k}
                 /\ \A j \in DOMAIN result.value.v : result.value.v[j] = input.v[j]
                 /\ Cardinality(DOMAIN result.value.v) = Cardinality(DOMAIN input.v) - 1
            ELSE result = ErrWith("KeyNotFound", k)

C15_Witness ==
    /\ Done
    /\ input = ObjAB
    /\ needle = DelStage(FieldStage(<<"a">>))
    /\ result = SingleValue(Object([k \in {<<"b">>} |-> Number(2)]))

\* the pipeline is "del(.k) | del(.k1) | ... | .k" over an object that holds k,
\* the del stages in between naming other keys and succeeding
del_then_query(k) ==
    LET n == Len(Stages)
    IN  /\ n >= 2
        /\ is_plain_key(k)
        /\ Stages[n] = FieldStage(k)
        /\ Stages[1] = DelStage(FieldStage(k))
        /\ \A i \in 2..(n - 1) :
              is_del_field_stage(Stages[i]) /\ del_key(Stages[i]) # k
        /\ is_object(input)
        /\ k \in DOMAIN input.v
        /\ compose(input, SubSeq(Stages, 1, n - 1)) # NoResult

\* C16 as stated: for every object containing key k, "del(.k) | .k" fails
\* with KeyNotFound(k), also with further del stages on other keys in between.
C16_QueryAfterDelAnyKey ==
    \A k \in Keys :
        (Done /\ del_then_query(k)) => result = ErrWith("KeyNotFound", k)

\* C16 amended: the same for every non-empty key k; with the empty key the
\* last stage is "." and returns the object left by the del stages.
C16_QueryAfterDelNonEmptyKey ==
    \A k \in Keys :
        (Done /\ del_then_query(k)) =>
            IF k # <<>>
            THEN result = ErrWith("KeyNotFound", k)
            ELSE result = compose(input, SubSeq(Stages, 1, Len(Stages) - 1))

C16_Witness ==
    /\ Done
    /\ input = ObjAB
    /\ needle = Pipe3(DelStage(FieldStage(<<"a">>)), DelStage(FieldStage(<<"b">>)),
                      FieldStage(<<"a">>))
    /\ Len(trace) = 3
    /\ result = ErrWith("KeyNotFound", <<"a">>)

\* C17: del(.k) on an input that is not an object fails with
\* DictionaryNotFound; del(.[...]) on an input that is not an array, objects
\* included, fails with ListNotFound whatever indices are listed.
C17_DelTypeMismatch ==
    /\ (Done /\ is_del_field_stage(needle) /\ ~is_object(input))
          => result = Err("DictionaryNotFound")
    /\ (Done /\ is_del_index_stage(needle) /\ ~is_array(input))
          => result = Err("ListNotFound")

C17_Witness ==
    /\ Done
    /\ input = ObjNested
    /\ needle = DelStage(IndexStage(<<"5">>))
    /\ result = Err("ListNotFound")

\* a single stage that is dispatched to del
is_del_stage(n) ==
    /\ ~contains(n, Sep)
    /\ starts_with(n, <<"d", "e", "l">>)

\* no '(', no ')', or a ')' before the '('
unmatched_parens(n) ==
    \/ ~contains(n, <<"(">>)
    \/ ~contains(n, <<")">>)
    \/ find(n, <<")">>) < find(n, <<"(">>)

\* C18 as stated: a del stage whose parentheses are absent or unmatched (no
\* '(', no ')', only one of the two, or a ')' before the '(') fails with
\* MissingBrackets, for every input value.
C18_UnmatchedIsMissingBrackets ==
    (Done /\ is_del_stage(needle) /\ unmatched_parens(needle))
        => result = Err("MissingBrackets")

\* ten times the arithmetic sum of an array of numbers
RECURSIVE tenths_sum(_)
tenths_sum(a) ==
    IF a = <<>> THEN 0
    ELSE (IF Head(a).t = "float" THEN Head(a).v ELSE 10 * Head(a).v)
         + tenths_sum(Tail(a))

\* C19 as stated: add on an array of numbers returns their arithmetic sum as
\* an integer (0 for the empty array), on a non-empty array of strings their
\* concatenation in order, and fails with InvalidInput on any other array and
\* on any input that is not an array.
C19_AddSumsOrConcatenates ==
    (Done /\ needle = AddStage) =>
        IF is_array(input) /\ \A i \in 1..Len(input.v) : input.v[i].t \in {"num", "float"}
        THEN /\ result.kind = "SingleValue"
             /\ result.value.t = "num"
             /\ 10 * result.value.v = tenths_sum(input.v)
        ELSE IF /\ is_array(input)
                /\ input.v # <<>>
                /\ \A i \in 1..Len(input.v) : input.v[i].t = "str"
        THEN result = SingleValue(String(concat(input.v)))
        ELSE result = Err("InvalidInput")

\* C20 as stated: length returns the element count of an array, the number of
\* characters of a string, the key count of an object, |n| for every integer
\* n of the machine range, the most negative one included, 0 for null and
\* Err(InvalidInput) for a bool; the result is never negative.
C20_LengthOfEveryInput ==
    (Done /\ needle \in {LengthStage, LengthDotStage}) =>
        CASE input.t = "arr"    -> result = SingleValue(Number(Len(input.v)))
          [] input.t = "str"    -> result = SingleValue(Number(Len(input.v)))
          [] input.t = "obj"    -> result = SingleValue(Number(Cardinality(DOMAIN input.v)))
          [] input.t = "num"    -> result = SingleValue(Number(Abs(input.v)))
          [] input.t = "i64min" -> /\ result.kind = "SingleValue"
                                   /\ result.value.t = "num"
                                   /\ result.value.v >= 0
          [] input.t = "null"   -> result = SingleValue(Number(0))
          [] input.t = "bool"   -> result = Err("InvalidInput")
          [] OTHER              -> TRUE

\* the characters a name is made of
NameChars ==
    {"a", "b", "c", "d", "e", "f", "g", "h", "i", "j", "k", "l", "m", "n", "o",
     "p", "q", "r", "s", "t", "u", "v", "w", "x", "y", "z", "_"}
    \cup {Digits[i] : i \in 1..10}

BuiltinNames == {AddStage, LengthStage, <<"d", "e", "l">>}

\* the stage is the name of a builtin, alone or followed by something that
\* does not continue the name
is_builtin_call(n) ==
    \E name \in BuiltinNames :
        /\ starts_with(n, name)
        /\ (Len(n) > Len(name) => n[Len(name) + 1] \notin NameChars)

\* C21 as stated: a stage that does not begin with '.' and is not a call of
\* add, length or del (such as "invalid_command", the empty stage, or a name
\* that merely begins with a builtin's name) fails with InvalidNeedle carrying
\* the stage text.
C21_UnrecognizedIsInvalidNeedle ==
    \A i \in 1..Len(trace) :
        (~starts_with(trace[i].needle, <<".">>) /\ ~is_builtin_call(trace[i].needle))
            => trace[i].out = ErrWith("InvalidNeedle", trace[i].needle)

\* C22: evaluating an expression, pipelines with del stages and pipelines
\* that fail part-way included, leaves the caller's document unchanged: no
\* step of pipe changes it, so it equals its value before the call when the
\* call returns, with Ok or with Err.
C22_DocumentUnchanged == [][input' = input]_vars

C22_Witness ==
    /\ Done
    /\ input = NumArray(4)
    /\ needle = Pipe2(DelStage(IndexStage(<<"1">>)), FieldStage(<<"a">>))
    /\ trace[1].out = SingleValue(Array(<<Number(1), Number(3), Number(4)>>))
    /\ result = ErrWith("KeyNotFound", <<"a">>)

\* the position in trace of the stage call that the item call at q follows
producer(q) ==
    CHOOSE p \in 1..q :
        /\ trace[p].at = "stage"
        /\ \A k \in (p + 1)..q : trace[k].at = "item"

\* C23: every Sequence a stage produces is consumed at most once. When a
\* further stage follows, the flattening loop takes its items one by one, in
\* order, each once (the items taken and the items left always make up the
\* Sequence produced); when it is the terminal result it is handed to the
\* caller whole, no item of it having been taken.
C23_SequenceConsumedOnce ==
    /\ \A q \in 1..Len(trace) :
          trace[q].at = "item" =>
              LET p == producer(q)
              IN  /\ trace[p].out.kind = "Iterator"
                  /\ trace[p].idx < Len(Stages)
                  /\ trace[q].idx = trace[p].idx + 1
                  /\ q - p <= Len(trace[p].out.items)
                  /\ trace[q].on = trace[p].out.items[q - p]
    /\ pc = "fan" =>
          LET p == producer(Len(trace))
          IN  trace[p].out.items =
                  [k \in 1..(Len(trace) - p) |-> trace[p + k].on] \o iter
    /\ (Done /\ result.kind = "Iterator") =>
          /\ LastCall.at = "stage"
          /\ LastCall.idx = Len(Stages)
          /\ LastCall.out = result

C23_Witness ==
    /\ Done
    /\ input = NumArray(3)
    /\ needle = Pipe3(IterStage, <<".">>, IterStage)
    /\ Len(trace) = 5
    /\ result = Iterator(NumArray(3).v)

(***************************************************************************)
(* ThreadPool (assignments/05-concurrency/src/thread_pool.rs)              *)
(***************************************************************************)
MaxThreads == 2
MaxTasks == 3
MaxCloses == 2

\* what the jobs return
TaskValues == {1, 2}

Workers == 1..num_threads

\* the variables of pipe while the pool runs
JqUnused ==
    /\ input = Null
    /\ needle = <<>>
    /\ overflow_checks = FALSE
    /\ pc = "unused"
    /\ current_input = Null
    /\ sub_needles = <<>>
    /\ iter = <<>>
    /\ next_needle = <<>>
    /\ filtered_results = <<>>
    /\ result = NoResult
    /\ trace = <<>>

\* ThreadPool::new(num_threads): Err(ZeroThreads) for 0, else the two
\* channels and num_threads spawned workers
PoolInit ==
    /\ JqUnused
    /\ num_threads \in 0..MaxThreads
    /\ workers = [i \in 1..num_threads |-> i]
    /\ job_sender = (num_threads > 0)
    /\ job_channel = <<>>
    /\ job_receiver_lock = 0
    /\ result_channel = <<>>
    /\ worker_pc = [i \in 1..num_threads |-> "lock"]
    /\ worker_job = [i \in 1..num_threads |-> 0]
    /\ main_pc = IF num_threads = 0 THEN "ZeroThreads" ELSE "idle"
    /\ results = <<>>
    /\ last_execute = "none"
    /\ accepted = <<>>
    /\ closes = 0
    /\ fetched = <<>>

\* the job channel has a receiver while a worker holds the Arc of it
job_receiver_alive == \E w \in Workers : worker_pc[w] # "exited"

\* the worker loop: job_receiver.lock().unwrap()
worker_lock(w) ==
    /\ worker_pc[w] = "lock"
    /\ job_receiver_lock = 0
    /\ job_receiver_lock' = w
    /\ worker_pc' = [worker_pc EXCEPT ![w] = "recv"]
    /\ UNCHANGED <<jq_vars, num_threads, workers, job_sender, job_channel, result_channel,
                   worker_job, main_pc, results, last_execute, accepted, closes, fetched>>

\* .recv() returns Ok(job); the guard of the mutex is dropped
worker_recv(w) ==
    /\ worker_pc[w] = "recv"
    /\ job_channel # <<>>
    /\ worker_job' = [worker_job EXCEPT ![w] = Head(job_channel)]
    /\ job_channel' = Tail(job_channel)
    /\ job_receiver_lock' = 0
    /\ worker_pc' = [worker_pc EXCEPT ![w] = "run"]
    /\ UNCHANGED <<jq_vars, num_threads, workers, job_sender, result_channel, main_pc,
                   results, last_execute, accepted, closes, fetched>>

\* .recv() returns Err: the channel is empty and has no sender; break
worker_disconnected(w) ==
    /\ worker_pc[w] = "recv"
    /\ job_channel = <<>>
    /\ ~job_sender
    /\ job_receiver_lock' = 0
    /\ worker_pc' = [worker_pc EXCEPT ![w] = "exited"]
    /\ UNCHANGED <<jq_vars, num_threads, workers, job_sender, job_channel, result_channel,
                   worker_job, main_pc, results, last_execute, accepted, closes, fetched>>

\* let result = job()
worker_run(w) ==
    /\ worker_pc[w] = "run"
    /\ worker_pc' = [worker_pc EXCEPT ![w] = "send"]
    /\ UNCHANGED <<jq_vars, num_threads, workers, job_sender, job_channel,
                   job_receiver_lock, result_channel, worker_job, main_pc, results,
                   last_execute, accepted, closes, fetched>>

\* result_sender.send(result); break when the receiver is gone
worker_send(w) ==
    /\ worker_pc[w] = "send"
    /\ IF main_pc = "dropped"
       THEN /\ worker_pc' = [worker_pc EXCEPT ![w] = "exited"]
            /\ UNCHANGED result_channel
       ELSE /\ result_channel' = Append(result_channel, worker_job[w])
            /\ worker_pc' = [worker_pc EXCEPT ![w] = "lock"]
    /\ UNCHANGED <<jq_vars, num_threads, workers, job_sender, job_channel,
                   job_receiver_lock, worker_job, main_pc, results, last_execute,
                   accepted, closes, fetched>>

\* execute(f), f returning v
execute(v) ==
    /\ main_pc = "idle"
    /\ IF job_sender /\ job_receiver_alive
       THEN /\ Len(accepted) < MaxTasks
            /\ job_channel' = Append(job_channel, v)
            /\ accepted' = Append(accepted, v)
            /\ last_execute' = "Ok"
       ELSE /\ last_execute' = "Send"
            /\ UNCHANGED <<job_channel, accepted>>
    /\ UNCHANGED <<jq_vars, num_threads, workers, job_sender, job_receiver_lock,
                   result_channel, worker_pc, worker_job, main_pc, results, closes,
                   fetched>>

\* close(): self.job_sender.take()
close_take ==
    /\ main_pc = "idle"
    /\ closes < MaxCloses
    /\ job_sender' = FALSE
    /\ main_pc' = "close_join"
    /\ UNCHANGED <<jq_vars, num_threads, workers, job_channel, job_receiver_lock,
                   result_channel, worker_pc, worker_job, results, last_execute,
                   accepted, closes, fetched>>

\* one turn of a loop over self.workers.drain(..): worker.join() returns
\* when the thread has finished
join_step(at, finished) ==
    /\ main_pc = at
    /\ workers # <<>>
    /\ finished
    /\ workers' = Tail(workers)
    /\ UNCHANGED <<jq_vars, num_threads, job_sender, job_channel, job_receiver_lock,
                   result_channel, worker_pc, worker_job, main_pc, results,
                   last_execute, accepted, closes, fetched>>

\* faulty variant: the handle is dropped without waiting for the thread
close_join_detaches == join_step("close_join", TRUE)

\* close(): worker.join().expect(..)
close_join == join_step("close_join", worker_pc[Head(workers)] = "exited")

\* close() returns
close_return ==
    /\ main_pc = "close_join"
    /\ workers = <<>>
    /\ main_pc' = "idle"
    /\ closes' = closes + 1
    /\ UNCHANGED <<jq_vars, num_threads, workers, job_sender, job_channel,
                   job_receiver_lock, result_channel, worker_pc, worker_job, results,
                   last_execute, accepted, fetched>>

\* one entry of fetched: the number of close calls that had returned when
\* get_results was called, and the Vec it returned
Fetch(after, out) == [after |-> after, out |-> out]

\* get_results(): Vec::new() and the lock of result_receiver
get_results_begin ==
    /\ main_pc = "idle"
    /\ results' = <<>>
    /\ main_pc' = "get_recv"
    /\ UNCHANGED <<jq_vars, num_threads, workers, job_sender, job_channel,
                   job_receiver_lock, result_channel, worker_pc, worker_job,
                   last_execute, accepted, closes, fetched>>

\* results.push(receiver.recv().unwrap()): blocks while the channel is empty
\* and a worker lives, panics when it is empty and every worker has finished
get_results_recv ==
    /\ main_pc = "get_recv"
    /\ IF result_channel # <<>>
       THEN /\ results' = <<Head(result_channel)>>
            /\ result_channel' = Tail(result_channel)
            /\ main_pc' = "get_try"
       ELSE /\ ~job_receiver_alive
            /\ main_pc' = "panicked"
            /\ UNCHANGED <<results, result_channel>>
    /\ UNCHANGED <<jq_vars, num_threads, workers, job_sender, job_channel,
                   job_receiver_lock, worker_pc, worker_job, last_execute, accepted,
                   closes, fetched>>

\* while let Ok(result) = receiver.try_recv(): one more result, or return
get_results_try ==
    /\ main_pc = "get_try"
    /\ IF result_channel # <<>>
       THEN /\ results' = Append(results, Head(result_channel))
            /\ result_channel' = Tail(result_channel)
            /\ UNCHANGED <<main_pc, fetched>>
       ELSE /\ main_pc' = "idle"
            /\ fetched' = Append(fetched, Fetch(closes, results))
            /\ UNCHANGED <<results, result_channel>>
    /\ UNCHANGED <<jq_vars, num_threads, workers, job_sender, job_channel,
                   job_receiver_lock, worker_pc, worker_job, last_execute, accepted,
                   closes>>

\* drop(): drop(self.job_sender.clone()) drops the clone, self.job_sender
\* stays as it is
drop_begin ==
    /\ main_pc = "idle"
    /\ main_pc' = "drop_join"
    /\ UNCHANGED <<jq_vars, num_threads, workers, job_sender, job_channel,
                   job_receiver_lock, result_channel, worker_pc, worker_job, results,
                   last_execute, accepted, closes, fetched>>

\* drop(): the loop of worker.join().unwrap() over self.workers.drain(..),
\* which ends when every worker left has finished; drop() returns and the
\* fields of the pool are dropped
drop_join ==
    /\ main_pc = "drop_join"
    /\ \A i \in 1..Len(workers) : worker_pc[workers[i]] = "exited"
    /\ workers' = <<>>
    /\ job_sender' = FALSE
    /\ main_pc' = "dropped"
    /\ UNCHANGED <<jq_vars, num_threads, job_channel, job_receiver_lock,
                   result_channel, worker_pc, worker_job, results, last_execute,
                   accepted, closes, fetched>>

PoolNext ==
    \/ \E w \in Workers : worker_lock(w)
    \/ \E w \in Workers : worker_recv(w)
    \/ \E w \in Workers : worker_disconnected(w)
    \/ \E w \in Workers : worker_run(w)
    \/ \E w \in Workers : worker_send(w)
    \/ \E v \in TaskValues : execute(v)
    \/ close_take
    \/ close_join
    \/ close_return
    \/ get_results_begin
    \/ get_results_recv
    \/ get_results_try
    \/ drop_begin
    \/ drop_join

PoolSpec == PoolInit /\ [][PoolNext]_vars

PoolTypeOK ==
    /\ main_pc \in {"ZeroThreads", "idle", "close_join", "get_recv", "get_try",
                     "drop_join", "dropped", "panicked"}
    /\ \A w \in Workers : worker_pc[w] \in {"lock", "recv", "run", "send", "exited"}
    /\ job_receiver_lock \in 0..num_threads
    /\ \A w \in Workers : (worker_pc[w] = "recv") = (job_receiver_lock = w)

\* how many times v occurs in the sequence q
occurrences(q, v) == Cardinality({i \in 1..Len(q) : q[i] = v})

same_multiset(q, r) ==
    /\ Len(q) = Len(r)
    /\ \A v \in TaskValues : occurrences(q, v) = occurrences(r, v)

\* C24: with at least one worker, once k >= 1 tasks were accepted by execute
\* and close() has returned, get_results() returns exactly k results, the
\* multiset of the tasks' return values, under every interleaving of the
\* workers: when close() has returned every result is in the result channel,
\* the first get_results call after it neither blocks nor panics, and the Vec
\* it returns holds each accepted task's value once.
C24_AllResultsAfterClose ==
    /\ (closes > 0 /\ fetched = <<>> /\ main_pc \in {"idle", "get_recv"})
          => same_multiset(result_channel, accepted)
    /\ (closes > 0 /\ fetched = <<>> /\ main_pc = "get_try")
          => same_multiset(results \o result_channel, accepted)
    /\ (fetched # <<>> /\ fetched[1].after > 0 /\ accepted # <<>>)
          => same_multiset(fetched[1].out, accepted)

C24_Witness ==
    /\ num_threads = 2
    /\ accepted = <<1, 2, 1>>
    /\ Len(fetched) = 1
    /\ fetched[1].after = 1
    /\ fetched[1].out = <<2, 1, 1>>
    /\ main_pc = "idle"

\* the elements of the arrays of a, one array after the other
RECURSIVE inner_concat(_)
inner_concat(a) ==
    IF a = <<>> THEN <<>> ELSE Head(a).v \o inner_concat(Tail(a))

\* C25: when the stage applied to the items of a Sequence yields a Sequence
\* for an item, the elements of that inner Sequence are appended in order to
\* the combined array (the array collected so far is always the outcomes of
\* the item calls, inner Sequences spliced in); ".[] | .[]" over an array of
\* arrays returns the single value that is the concatenation of the inner
\* arrays in order, not a Sequence and not the array of the inner arrays.
C25_InnerSequenceFlattened ==
    /\ pc = "fan" =>
          filtered_results =
              flat_outs(trace, producer(Len(trace)) + 1, Len(trace))
    /\ (/\ Done
        /\ needle = Pipe2(IterStage, IterStage)
        /\ is_array(input)
        /\ \A i \in 1..Len(input.v) : is_array(input.v[i]))
          => result = SingleValue(Array(inner_concat(input.v)))

C25_Witness ==
    /\ Done
    /\ needle = Pipe2(IterStage, IterStage)
    /\ input = Array(<<NumArray(2), NumArray(1)>>)
    /\ result = SingleValue(Array(<<Number(1), Number(2), Number(1)>>))

\* C26: for a stage that begins with '.' and contains a '[' and, after it, a
\* ']', evaluated on an array, the text between the first '[' and the first
\* ']' alone decides the form: empty selects iteration, text with a ':'
\* selects slice, anything else selects index; the text before the '[' and
\* the text after the ']' have no effect, the outcome being that of the stage
\* made of '.', '[', that text and ']' (".[0][1]" and ".foo[0]" behave like
\* ".[0]").
C26_FirstBracketPairDecides ==
    \A i \in 1..Len(trace) :
        (is_bracket_stage(trace[i].needle) /\ is_array(trace[i].on)) =>
            LET c == bracket_content(trace[i].needle)
            IN  /\ trace[i].out = filter_input(trace[i].on, IndexStage(c))
                /\ trace[i].out =
                      (IF c = <<>> THEN Iterator(trace[i].on.v)
                       ELSE IF contains(c, <<":">>) THEN array_slice(trace[i].on, c)
                       ELSE array_index(trace[i].on, c))

C26_Witness ==
    /\ Done
    /\ needle = <<".", "[", "0", "]", "[", "1", "]">>
    /\ input = Array(<<NumArray(2), NumArray(1)>>)
    /\ result = SingleValue(NumArray(2))

\* C27: for a stage that begins with '.' and contains a '[' and a ']', the
\* type of the input is checked before the bracket content is read: on every
\* input that is not an array the stage fails with ListNotFound, whatever the
\* bracket content is (empty, a valid index, a valid slice, or malformed text
\* that gives ParseError on an array).
C27_TypeCheckedFirst ==
    \A i \in 1..Len(trace) :
        (/\ starts_with(trace[i].needle, <<".">>)
         /\ contains(trace[i].needle, <<"[">>)
         /\ contains(trace[i].needle, <<"]">>)
         /\ ~is_array(trace[i].on))
            => trace[i].out = Err("ListNotFound")

C27_Witness ==
    /\ Done
    /\ needle = IndexStage(<<"x">>)
    /\ input = ObjAB
    /\ result = Err("ListNotFound")

\* C28: builtins are dispatched by the prefix of the stage and the rest of
\* the stage is ignored: a stage that does not begin with '.' runs add if it
\* starts with "add", else length if it starts with "length", else del if it
\* starts with "del"; add and length ignore any argument text, so "length",
\* "length(.)" and "length(.a)" give the same result on every input (the
\* length of {"a":1,"b":2} is 2 for each of them).
C28_DispatchByPrefix ==
    \A i \in 1..Len(trace) :
        LET n  == trace[i].needle
            on == trace[i].on
        IN  ~starts_with(n, <<".">>) =>
                /\ starts_with(n, AddStage) => trace[i].out = add_function(on)
                /\ starts_with(n, LengthStage) => trace[i].out = length_function(on)
                /\ starts_with(n, <<"d", "e", "l">>) => trace[i].out = delete_function(on, n)
                /\ (starts_with(n, LengthStage) /\ on = ObjAB)
                      => trace[i].out = SingleValue(Number(2))
                /\ (starts_with(n, AddStage) /\ on = NumArray(3))
                      => trace[i].out = SingleValue(Number(6))

C28_Witness ==
    /\ Done
    /\ needle = LengthFieldStage
    /\ input = ObjAB
    /\ result = SingleValue(Number(2))

\* the token list a stage of DelTokenStages was written with
listed_tokens(n) ==
    CHOOSE l \in DelTokenLists : n = DelStage(IndexStage(token_list(l)))

\* the index a token stands for, -1 for a token that is not a non-negative
\* integer literal
token_index(t) ==
    CASE t = <<"0">> -> 0
      [] t = <<"1">> -> 1
      [] t = <<"3">> -> 3
      [] t = <<"+", "2">> -> 2
      [] OTHER -> -1

\* C29: in del(.[...]) on an array the index list is split on ", " and every
\* token that is not a non-negative integer literal is dropped silently: the
\* call never returns ParseError (it returns an array), a list with no
\* parsable token ("del(.[x])", "del(.[1,3])" without the space) returns the
\* array unchanged, and only the positions the parsable tokens name are
\* removed.
C29_UnparsableTokensDropped ==
    (Done /\ needle \in DelTokenStages /\ is_array(input)) =>
        LET l       == listed_tokens(needle)
            N       == Len(input.v)
            named   == {token_index(l[i]) : i \in 1..Len(l)} \ {-1}
            inrange == {p \in named : p < N}
        IN  /\ result.kind = "SingleValue"
            /\ result.value.t = "arr"
            /\ named = {} => result.value = input
            /\ (\A i, j \in 1..Len(l) :
                    (token_index(l[i]) = token_index(l[j]) /\ token_index(l[i]) # -1)
                        => i = j)
                  => result.value.v = without_positions(input.v, 0, inrange)

C29_Witness ==
    /\ Done
    /\ input = NumArray(4)
    /\ needle = DelStage(IndexStage(token_list(<<<<"x">>, <<"3">>, <<"1">>>>)))
    /\ result = SingleValue(Array(<<Number(1), Number(3)>>))

\* the worker w has a step it can take
worker_can_step(w) ==
    \/ worker_pc[w] = "lock" /\ job_receiver_lock = 0
    \/ worker_pc[w] = "recv" /\ (job_channel # <<>> \/ ~job_sender)
    \/ worker_pc[w] \in {"run", "send"}

\* C30 as stated: shutting the pool down always terminates, under every
\* interleaving and with any number of queued tasks, after close() and also
\* when the pool is dropped without a close() before: while the owner waits
\* in a join, the worker it waits for has finished or some worker can still
\* take a step (no deadlock), the workers that wait in recv on the empty job
\* channel find it disconnected, every worker has left its loop when the pool
\* is gone, and a second close() finds nothing to do.
C30_ShutdownTerminates ==
    /\ main_pc \in {"close_join", "drop_join"} =>
          \/ workers = <<>>
          \/ worker_pc[Head(workers)] = "exited"
          \/ \E w \in Workers : worker_can_step(w)
    /\ main_pc = "dropped" => \A w \in Workers : worker_pc[w] = "exited"
    /\ (main_pc = "close_join" /\ closes > 0) => (workers = <<>> /\ ~job_sender)

====
